---- MODULE Spec2Model ----
(***************************************************************************)
(* A model of src/scripts/adaptyst-process.py, the perf-script handler of  *)
(* Adaptyst: the code generator and symbol dictionary, the perf-map cache  *)
(* (find_in_map), the frame resolver (process_callchain_elem), the         *)
(* callchain filter and the stream router of process_event, and the        *)
(* shutdown of trace_end.                                                  *)
(*                                                                         *)
(* Python strings are sequences of one-character strings, except the       *)
(* dictionary codes, which are sequences of code points (chr is applied    *)
(* digit by digit).  None is <<>> and a present value x is <<x>>.          *)
(***************************************************************************)
EXTENDS Integers, Sequences, FiniteSets, TLC

VARIABLES
    pc,                 \* "loaded", "running", "closed" or "failed" (an exception left process_event)
    cur_code_sym,       \* line 26
    event_streams,      \* line 45: one record [lines, closed] per connection
    next_index,         \* line 46
    symbol_dict,        \* line 47: insertion-ordered, a sequence of [key, code]
    dso_dict,           \* line 48: a function from module path to a set of hex offsets
    overall_event_type, \* line 49
    perf_maps,          \* line 50: a function from map id to [map_path, f_none, pos, i, groups]
    filter_settings,    \* line 51
    event_stream_dict,  \* line 61: a function from pid to a function from tid to a stream index
    frontend_stream,    \* line 62: [lines, closed]
    map_files,          \* the file system: a function from path to [exists, lines]
    artifacts,          \* the files written by trace_end
    code_log,           \* history: every value next_code returned, in order
    emit_log,           \* history: [conn, pid, tid] of every record written, in order
    find_log,           \* history: the calls of find_in_map, in order
    last                \* history: what the last process_event call did

vars == <<pc, cur_code_sym, event_streams, next_index, symbol_dict, dso_dict,
          overall_event_type, perf_maps, filter_settings, event_stream_dict,
          frontend_stream, map_files, artifacts, code_log, emit_log, find_log, last>>

None == <<>>
Some(x) == <<x>>
IsNone(o) == o = <<>>
Val(o) == o[1]

RECURSIVE Reverse(_)
Reverse(s) == IF s = <<>> THEN <<>> ELSE Append(Reverse(Tail(s)), Head(s))

Range(s) == {s[k] : k \in DOMAIN s}

(***************************************************************************)
(* Code generator, lines 26-42.                                            *)
(***************************************************************************)
MinChar == 32
MaxChar == 126

\* the body of the for loop of next_code from index i on (0-based); n is the
\* length range() was given when the loop started
RECURSIVE NextCodeLoopOffByOne(_, _, _)
NextCodeLoopOffByOne(cur, i, n) ==
    IF i >= n THEN cur
    ELSE LET c1 == [cur EXCEPT ![i + 1] = @ + 1] IN
         IF c1[i + 1] < MaxChar THEN c1
         ELSE LET c2 == [c1 EXCEPT ![i + 1] = MinChar]
                  c3 == IF i = Len(c2) - 1 THEN Append(c2, MinChar) ELSE c2
              IN NextCodeLoopOffByOne(c3, i + 1, n)

RECURSIVE NextCodeLoopNoCarry(_, _, _)
NextCodeLoopNoCarry(cur, i, n) ==
    IF i >= n THEN cur
    ELSE LET c1 == [cur EXCEPT ![i + 1] = @ + 1] IN
         IF c1[i + 1] <= MaxChar THEN c1
         ELSE LET c2 == [c1 EXCEPT ![i + 1] = MinChar] IN
              IF i = Len(c2) - 1 THEN Append(c2, MinChar) ELSE c2

RECURSIVE NextCodeLoop(_, _, _)
NextCodeLoop(cur, i, n) ==
    IF i >= n THEN cur
    ELSE LET c1 == [cur EXCEPT ![i + 1] = @ + 1] IN
         IF c1[i + 1] <= MaxChar THEN c1
         ELSE LET c2 == [c1 EXCEPT ![i + 1] = MinChar]
                  c3 == IF i = Len(c2) - 1 THEN Append(c2, MinChar) ELSE c2
              IN NextCodeLoop(c3, i + 1, n)

\* next_code(cur_code): the string returned and the list as it is left
next_code(cur_code) ==
    [res |-> cur_code, cur_code |-> NextCodeLoop(cur_code, 0, Len(cur_code))]

(***************************************************************************)
(* Strings: hex(), str(), int(s, 16), str.strip(), Path.name and the two   *)
(* regular expressions of lines 119 and 233.                               *)
(***************************************************************************)
HexChars == <<"0", "1", "2", "3", "4", "5", "6", "7", "8", "9",
              "a", "b", "c", "d", "e", "f">>
UpperHexChars == <<"A", "B", "C", "D", "E", "F">>
DecChars == {HexChars[k] : k \in 1..10}

IsHexChar(c) == c \in Range(HexChars) \cup Range(UpperHexChars)
IsSpace(c) == c \in {" ", "\t"}

HexVal(c) ==
    IF c \in Range(HexChars)
    THEN (CHOOSE k \in 1..16 : HexChars[k] = c) - 1
    ELSE (CHOOSE k \in 1..6 : UpperHexChars[k] = c) + 9

RECURSIVE HexDigitsOf(_)
HexDigitsOf(n) ==
    IF n < 16 THEN <<HexChars[n + 1]>>
    ELSE Append(HexDigitsOf(n \div 16), HexChars[(n % 16) + 1])

\* hex(n) and f'{n:#x}' for n >= 0
Hex(n) == <<"0", "x">> \o HexDigitsOf(n)

RECURSIVE DecDigitsOf(_)
DecDigitsOf(n) ==
    IF n < 10 THEN <<HexChars[n + 1]>>
    ELSE Append(DecDigitsOf(n \div 10), HexChars[(n % 10) + 1])

\* str(n) for n >= 0
Str(n) == DecDigitsOf(n)

\* int(s, 16) of a non-empty string of hex digits
RECURSIVE IntHex(_)
IntHex(s) ==
    IF s = <<>> THEN 0
    ELSE IntHex(SubSeq(s, 1, Len(s) - 1)) * 16 + HexVal(s[Len(s)])

\* a character class of the regular expressions: [0-9a-fA-F], \s, \d,
\* [^/] and [^ ]
InClass(class, c) ==
    IF class = "hex" THEN IsHexChar(c)
    ELSE IF class = "space" THEN IsSpace(c)
    ELSE IF class = "dec" THEN c \in DecChars
    ELSE IF class = "notslash" THEN c # "/"
    ELSE c # " "

\* the length of the longest prefix of s made of characters of the class
RECURSIVE SpanLen(_, _)
SpanLen(class, s) ==
    IF s = <<>> \/ ~InClass(class, Head(s)) THEN 0 ELSE 1 + SpanLen(class, Tail(s))

Drop(s, n) == SubSeq(s, n + 1, Len(s))
Take(s, n) == SubSeq(s, 1, n)

\* s without its leading characters of the class
Skip(class, s) == Drop(s, SpanLen(class, s))

Strip(s) == Reverse(Skip("space", Reverse(Skip("space", s))))

Bracket(s) == <<"[">> \o s \o <<"]">>

\* re.search(r'^([0-9a-fA-F]+)\s+([0-9a-fA-F]+)\s+(.+)$', line), line 118:
\* <<>> for no match, else <<[g1, g2, g3]>>.  r1 to r4 are what is left of
\* the line after group 1, the first blanks, group 2 and the second blanks
MapLineMatch(line) ==
    LET r1 == Skip("hex", line)
        r2 == Skip("space", r1)
        r3 == Skip("hex", r2)
        r4 == Skip("space", r3)
    IN IF Len(line) > Len(r1) /\ Len(r1) > Len(r2) /\ Len(r2) > Len(r3)
          /\ Len(r3) > Len(r4) /\ Len(r4) >= 1
       THEN Some([g1 |-> Take(line, Len(line) - Len(r1)),
                  g2 |-> Take(r2, Len(r2) - Len(r3)), g3 |-> r4])
       ELSE None

\* Path(p).name: what follows the last slash
RECURSIVE PathName(_)
PathName(p) ==
    IF \E k \in DOMAIN p : p[k] = "/"
    THEN PathName(Drop(p, CHOOSE k \in DOMAIN p : p[k] = "/"))
    ELSE p

\* re.search(r'^perf\-(\d+)\.map$', name), line 233: <<>> or <<group 1>>
PerfMapMatch(name) ==
    LET pre == <<"p", "e", "r", "f", "-">>
        suf == <<".", "m", "a", "p">>
        nd == SpanLen("dec", Drop(name, Len(pre)))
    IN IF Len(name) >= Len(pre) /\ Take(name, Len(pre)) = pre
          /\ nd >= 1 /\ Drop(name, Len(pre) + nd) = suf
       THEN Some(SubSeq(name, Len(pre) + 1, Len(pre) + nd))
       ELSE None

\* re.search(r'^([^/]+)', event_type).group(1), line 210 (the event name
\* does not start with a slash)
ParsedEventType(event_type) ==
    Take(event_type, SpanLen("notslash", event_type))

\* cxxfilt.demangle(name, False) on the names of this model: an Itanium
\* mangled name is rewritten, anything else comes back as it is
MangledF == <<"_", "Z", "1", "f", "v">>
DemangledF == <<"f", "(", ")">>
demangle(name) == IF name = MangledF THEN DemangledF ELSE name

(***************************************************************************)
(* The perf-map cache: find_in_map, lines 87-147.  A map entry is the      *)
(* tuple <<start, length, name>> of line 128.                              *)
(***************************************************************************)
Contains(data, ip) == data[1] <= ip /\ data[1] + data[2] > ip

\* bisect.bisect_left(group, ip, key=lambda x: x[0]) between lo and hi (0-based)
RECURSIVE BisectLeft(_, _, _, _)
BisectLeft(group, ip, lo, hi) ==
    IF lo < hi
    THEN LET mid == (lo + hi) \div 2 IN
         IF group[mid + 1][1] < ip
         THEN BisectLeft(group, ip, mid + 1, hi)
         ELSE BisectLeft(group, ip, lo, mid)
    ELSE lo

\* lines 103-109: the name of the first cached hit, or None
RECURSIVE GroupsLookup(_, _)
GroupsLookup(groups, ip) ==
    IF groups = <<>> THEN None
    ELSE LET group == Head(groups)
             index == BisectLeft(group, ip, 0, Len(group))
         IN IF index < Len(group) /\ group[index + 1][1] <= ip
               /\ group[index + 1][1] + group[index + 1][2] > ip
            THEN Some(group[index + 1][3])
            ELSE GroupsLookup(Tail(groups), ip)

\* list.sort(key=lambda x: x[0]): stable, ascending by start
RECURSIVE InsertByStart(_, _)
InsertByStart(sorted, e) ==
    IF sorted = <<>> THEN <<e>>
    ELSE IF sorted[Len(sorted)][1] <= e[1] THEN Append(sorted, e)
    ELSE Append(InsertByStart(Take(sorted, Len(sorted) - 1), e), sorted[Len(sorted)])

\* lines 136 and 144 left out: the batch in the order of the file
SortByStartLeftOut(l) == l

RECURSIVE SortByStart(_)
SortByStart(l) ==
    IF l = <<>> THEN <<>>
    ELSE InsertByStart(SortByStart(Take(l, Len(l) - 1)), l[Len(l)])

\* lines 111-141, the while loop on the open file: select() finds a FIFO
\* ready while a written line is unread, and a regular file ready always,
\* so that at the end of a regular file next(f) of line 115 raises
\* StopIteration (raised).  pos is the file position in lines, i the line
\* counter i[0].  ReadLoop is the loop test, ReadLine lines 115-126 for the
\* match of the line read, ReadEntry lines 128-141 for its entry
RECURSIVE ReadLoop(_, _, _, _, _), ReadLine(_, _, _, _, _, _), ReadEntry(_, _, _, _, _, _)
ReadLoop(file, pos, i, to_add, ip) ==
    IF pos >= Len(file.lines)
    THEN [pos |-> pos, i |-> i, to_add |-> to_add, result |-> None,
          raised |-> file.regular]
    ELSE ReadLine(file, pos + 1, i + 1, to_add, ip,
                  MapLineMatch(Strip(file.lines[pos + 1])))

ReadLine(file, pos, i, to_add, ip, match) ==
    IF IsNone(match) THEN ReadLoop(file, pos, i, to_add, ip)
    ELSE ReadEntry(file, pos, i, to_add, ip,
                   <<IntHex(Val(match).g1), IntHex(Val(match).g2), demangle(Val(match).g3)>>)

ReadEntry(file, pos, i, to_add, ip, data) ==
    IF Contains(data, ip)
    THEN [pos |-> pos, i |-> i, to_add |-> Append(to_add, data), result |-> Some(data[3]),
          raised |-> FALSE]
    ELSE ReadLoop(file, pos, i, Append(to_add, data), ip)

\* a dict kept as the sequence of its entries [key, ...] in insertion order:
\* the position of key, 0 when it is absent
KeyIndex(d, key) ==
    IF \E k \in DOMAIN d : d[k].key = key
    THEN CHOOSE k \in DOMAIN d : d[k].key = key
    ELSE 0

\* the file at path: absent until the environment creates it
FileOf(files, path) ==
    IF path \in DOMAIN files THEN files[path]
    ELSE [exists |-> FALSE, regular |-> TRUE, lines |-> <<>>]

\* lines 111-147 on entry k of the cache, r being what the while loop left:
\* the exception of line 115 leaves the function before lines 143-145
find_read(pm, k, r) ==
    [perf_maps |-> [pm EXCEPT ![k] =
                       [@ EXCEPT !.pos = r.pos, !.i = r.i,
                                 !.groups = IF Len(r.to_add) > 0 /\ ~r.raised
                                            THEN Append(@, SortByStart(r.to_add))
                                            ELSE @]],
     result |-> r.result,
     raised |-> r.raised]

\* lines 98-147 with the file opened by the first call that finds it
find_in_entry_reopens(pm, files, k, ip) ==
    IF ~FileOf(files, pm[k].map_path).exists
    THEN [perf_maps |-> pm, result |-> None, raised |-> FALSE]
    ELSE find_read([pm EXCEPT ![k] = [@ EXCEPT !.f_none = FALSE]], k,
                   ReadLoop(FileOf(files, pm[k].map_path), pm[k].pos, pm[k].i, <<>>, ip))

\* lines 98-147 on entry k of the cache
find_in_entry(pm, files, k, ip) ==
    IF pm[k].f_none THEN [perf_maps |-> pm, result |-> None, raised |-> FALSE]
    ELSE IF ~IsNone(GroupsLookup(pm[k].groups, ip))
    THEN [perf_maps |-> pm, result |-> GroupsLookup(pm[k].groups, ip), raised |-> FALSE]
    ELSE find_read(pm, k, ReadLoop(FileOf(files, pm[k].map_path),
                                   pm[k].pos, pm[k].i, <<>>, ip))

\* lines 90-95: the cache with an entry for map_id.  An entry of perf_maps
\* is the tuple of lines 92-95 under its key; f is the pair (f_none, pos)
with_entry(pm, files, map_path, map_id) ==
    IF KeyIndex(pm, map_id) # 0 THEN pm
    ELSE Append(pm, [key |-> map_id, map_path |-> map_path,
                     f_none |-> ~FileOf(files, map_path).exists,
                     pos |-> 0, i |-> 0, groups |-> <<>>])

\* find_in_map(map_path, map_id, ip) on the cache pm and the file system
\* files: the cache as it is left, the value returned, and whether the call
\* ended in StopIteration
find_in_map(pm, files, map_path, map_id, ip) ==
    find_in_entry(with_entry(pm, files, map_path, map_id), files,
                  KeyIndex(with_entry(pm, files, map_path, map_id), map_id), ip)

(***************************************************************************)
(* The frame resolver: process_callchain_elem, lines 226-254.  A raw frame *)
(* is [ip, has_dso, dso, dso_off, has_sym, sym]: has_dso is 'dso' in elem, *)
(* has_sym is 'sym' in elem and 'name' in elem['sym'].                     *)
(***************************************************************************)
SetAdd(d, key, v) ==
    IF key \in DOMAIN d THEN [d EXCEPT ![key] = @ \cup {v}] ELSE d @@ (key :> {v})

\* line 244 recording the instruction pointer in place of the offset
DsoOffsetsOfIp(d, elem) == SetAdd(d, elem.dso, Hex(elem.ip))

\* the offsets of a module, as line 244 records them
DsoOffsets(d, elem) == SetAdd(d, elem.dso, Hex(elem.dso_off))

\* the module of the frame is a perf map (line 234) / another file (line 243)
IsMap(elem) == elem.has_dso /\ ~IsNone(PerfMapMatch(PathName(elem.dso)))
IsOrdinary(elem) == elem.has_dso /\ IsNone(PerfMapMatch(PathName(elem.dso)))

\* lines 227-252: sym_result[0], found being what find_in_map returned
SymName(elem, found) ==
    IF IsMap(elem) /\ elem.has_sym THEN demangle(elem.sym)
    ELSE IF IsMap(elem) /\ ~IsNone(found.result) THEN Val(found.result)
    ELSE IF elem.has_sym THEN elem.sym
    ELSE IF IsOrdinary(elem) THEN Bracket(elem.dso)
    ELSE Bracket(Hex(elem.ip))

\* lines 226-254 for a frame that find_in_map is called for, found being
\* what it returned
resolve_in_map(elem, st, files, found) ==
    [st |-> [perf_maps |-> found.perf_maps,
             dso_dict |-> st.dso_dict,
             find_log |-> Append(st.find_log,
                                 [map_id |-> Val(PerfMapMatch(PathName(elem.dso))),
                                  map_path |-> elem.dso,
                                  ip |-> elem.ip,
                                  exists |-> FileOf(files, elem.dso).exists,
                                  lines |-> FileOf(files, elem.dso).lines,
                                  before |-> st.perf_maps,
                                  after |-> found.perf_maps,
                                  result |-> found.result,
                                  raised |-> found.raised])],
     sym_result |-> <<SymName(elem, found), elem.dso>>,
     off_result |-> Hex(elem.ip),
     raised |-> found.raised]

\* st is [perf_maps, dso_dict, find_log]; the result is the state as it is
\* left, the pair tuple(sym_result) and off_result, or raised when
\* find_in_map ended in StopIteration
process_callchain_elem(elem, st, files) ==
    IF IsMap(elem) /\ ~elem.has_sym
    THEN resolve_in_map(elem, st, files,
                        find_in_map(st.perf_maps, files, elem.dso,
                                    Val(PerfMapMatch(PathName(elem.dso))), elem.ip))
    ELSE [st |-> [st EXCEPT !.dso_dict = IF IsOrdinary(elem) THEN DsoOffsets(@, elem)
                                         ELSE @],
          sym_result |-> <<SymName(elem, [result |-> None]),
                           IF elem.has_dso THEN elem.dso ELSE <<>> >>,
          off_result |-> IF IsOrdinary(elem) THEN Hex(elem.dso_off) ELSE Hex(elem.ip),
          raised |-> FALSE]

\* line 256: tuple(map(process_callchain_elem, raw_callchain)), left to
\* right; MapNext takes what process_callchain_elem gave for the first
\* frame.  tuple() takes a StopIteration that leaves the mapped function for
\* the end of the iterator: the tuple ends before that frame
RECURSIVE MapCallchain(_, _, _, _), MapNext(_, _, _, _)
MapCallchain(raw, st, files, done) ==
    IF raw = <<>> THEN [st |-> st, callchain_tmp |-> done]
    ELSE MapNext(Tail(raw), files, done, process_callchain_elem(Head(raw), st, files))

MapNext(rest, files, done, r) ==
    IF r.raised THEN [st |-> r.st, callchain_tmp |-> done]
    ELSE MapCallchain(rest, r.st, files, Append(done, <<r.sym_result, r.off_result>>))

(***************************************************************************)
(* The symbol dictionary, line 47: defaultdict(lambda: next_code(...)).    *)
(* st carries symbol_dict, cur_code_sym and code_log among its fields.     *)
(***************************************************************************)
\* symbol_dict[key] taking a new code also for a key the dictionary holds
SymLookupStateAlwaysNew(st, key) ==
    LET n == next_code(st.cur_code_sym) IN
    [st EXCEPT !.symbol_dict = Append(@, [key |-> key, code |-> n.res]),
               !.cur_code_sym = n.cur_code,
               !.code_log = Append(@, n.res)]

\* symbol_dict[key]: the state as it is left
SymLookupState(st, key) ==
    IF KeyIndex(st.symbol_dict, key) # 0 THEN st
    ELSE LET n == next_code(st.cur_code_sym) IN
         [st EXCEPT !.symbol_dict = Append(@, [key |-> key, code |-> n.res]),
                    !.cur_code_sym = n.cur_code,
                    !.code_log = Append(@, n.res)]

\* symbol_dict[key]: the code returned
SymLookupCode(st, key) ==
    LET after == SymLookupState(st, key) IN
    after.symbol_dict[KeyIndex(after.symbol_dict, key)].code

(***************************************************************************)
(* The callchain filter, lines 258-325.  filter_settings is None or        *)
(* [type, conditions, mark]; a condition is a string such as "SYM foo"     *)
(* whose regex is a literal (no metacharacter), so that re.search is a     *)
(* substring search.  The value of process() of a user's script is         *)
(* [kind, items]: kind is "none", "other" (not a list) or "list", and an   *)
(* item is "True", "False" or "other" (not a bool).                        *)
(***************************************************************************)
Search(regex, str) ==
    \E k \in 0..(Len(str) - Len(regex)) : SubSeq(str, k + 1, k + Len(regex)) = regex

\* re.search(r'^(SYM|EXEC|ANY) (.+)$', cond), lines 268-272
CondParse(cond) ==
    LET n == SpanLen("notspace", cond) IN
    [cond_type |-> Take(cond, n), regex |-> Drop(cond, n + 1)]

SYM == <<"S", "Y", "M">>
EXEC == <<"E", "X", "E", "C">>
ANY == <<"A", "N", "Y">>

\* lines 274-286: the condition holds of the frame
CondHolds(sym_result, cond) ==
    LET c == CondParse(cond) IN
    IF c.cond_type = SYM THEN Search(c.regex, sym_result[1])
    ELSE IF c.cond_type = EXEC THEN Search(c.regex, sym_result[2])
    ELSE IF c.cond_type = ANY
    THEN Search(c.regex, sym_result[1]) \/ Search(c.regex, sym_result[2])
    ELSE TRUE

\* lines 266-286: the inner loop, matched
RECURSIVE GroupMatched(_, _)
GroupMatched(sym_result, group) ==
    IF group = <<>> THEN TRUE
    ELSE IF ~CondHolds(sym_result, Head(group)) THEN FALSE
    ELSE GroupMatched(sym_result, Tail(group))

\* lines 264-291
RECURSIVE satisfy_conditions(_, _)
satisfy_conditions(sym_result, conditions) ==
    IF conditions = <<>> THEN FALSE
    ELSE IF GroupMatched(sym_result, Head(conditions)) THEN TRUE
    ELSE satisfy_conditions(sym_result, Tail(conditions))

\* lines 317-318 with the negation of the deny case lost
KeepsDenyLikeAllow(type, satisfied) ==
    (type \in {"python", "allow"} /\ satisfied) \/ (type = "deny" /\ satisfied)

\* lines 317-318: the frame is kept
Keeps(type, satisfied) ==
    (type \in {"python", "allow"} /\ satisfied) \/ (type = "deny" /\ ~satisfied)

CutKey == << <<"(", "c", "u", "t", ")">>, <<>> >>

\* lines 296-297 with a list longer than the chain let through
InvalidAcceptedAllowsLonger(accepted, n) ==
    accepted.kind # "list" \/ Len(accepted.items) < n

\* lines 296-297: process() gave no list of the chain's length
InvalidAccepted(accepted, n) ==
    accepted.kind # "list" \/ Len(accepted.items) # n

\* lines 305-323 with symbol_dict[sym_result] evaluated for the frames that
\* are dropped without a marker too
RECURSIVE FilterLoopEncodesRejected(_, _, _, _, _)
FilterLoopEncodesRejected(callchain_tmp, i, fs, accepted, st) ==
    IF i >= Len(callchain_tmp) THEN st
    ELSE LET sym_result == callchain_tmp[i + 1][1]
             off_result == callchain_tmp[i + 1][2]
             python == fs.type = "python"
         IN IF python /\ accepted.items[i + 1] \notin {"True", "False"}
            THEN [st EXCEPT !.error = TRUE]
            ELSE LET satisfied == IF python THEN accepted.items[i + 1] = "True"
                                  ELSE satisfy_conditions(sym_result, fs.conditions)
                 IN IF Keeps(fs.type, satisfied)
                    THEN FilterLoopEncodesRejected(callchain_tmp, i + 1, fs, accepted,
                             [SymLookupState(st, sym_result) EXCEPT
                                 !.callchain = Append(@, <<SymLookupCode(st, sym_result),
                                                           off_result>>),
                                 !.last_cut = FALSE,
                                 !.kept = Append(@, TRUE)])
                    ELSE IF fs.mark /\ ~st.last_cut
                    THEN FilterLoopEncodesRejected(callchain_tmp, i + 1, fs, accepted,
                             [SymLookupState(st, CutKey) EXCEPT
                                 !.callchain = Append(@, <<SymLookupCode(st, CutKey), <<>> >>),
                                 !.last_cut = TRUE,
                                 !.kept = Append(@, FALSE)])
                    ELSE FilterLoopEncodesRejected(callchain_tmp, i + 1, fs, accepted,
                             [SymLookupState(st, sym_result) EXCEPT
                                 !.kept = Append(@, FALSE)])

\* lines 305-323, the for loop from index i on (0-based).  st is
\* [symbol_dict, cur_code_sym, code_log, callchain, last_cut, kept, error]
RECURSIVE FilterLoop(_, _, _, _, _)
FilterLoop(callchain_tmp, i, fs, accepted, st) ==
    IF i >= Len(callchain_tmp) THEN st
    ELSE LET sym_result == callchain_tmp[i + 1][1]
             off_result == callchain_tmp[i + 1][2]
             python == fs.type = "python"
         IN IF python /\ accepted.items[i + 1] \notin {"True", "False"}
            THEN [st EXCEPT !.error = TRUE]
            ELSE LET satisfied == IF python THEN accepted.items[i + 1] = "True"
                                  ELSE satisfy_conditions(sym_result, fs.conditions)
                 IN IF Keeps(fs.type, satisfied)
                    THEN FilterLoop(callchain_tmp, i + 1, fs, accepted,
                             [SymLookupState(st, sym_result) EXCEPT
                                 !.callchain = Append(@, <<SymLookupCode(st, sym_result),
                                                           off_result>>),
                                 !.last_cut = FALSE,
                                 !.kept = Append(@, TRUE)])
                    ELSE IF fs.mark /\ ~st.last_cut
                    THEN FilterLoop(callchain_tmp, i + 1, fs, accepted,
                             [SymLookupState(st, CutKey) EXCEPT
                                 !.callchain = Append(@, <<SymLookupCode(st, CutKey), <<>> >>),
                                 !.last_cut = TRUE,
                                 !.kept = Append(@, FALSE)])
                    ELSE FilterLoop(callchain_tmp, i + 1, fs, accepted,
                             [st EXCEPT !.kept = Append(@, FALSE)])

\* lines 259-260: the comprehension over reversed(callchain_tmp)
RECURSIVE EncodeAll(_, _)
EncodeAll(frames, st) ==
    IF frames = <<>> THEN st
    ELSE EncodeAll(Tail(frames),
             [SymLookupState(st, Head(frames)[1]) EXCEPT
                 !.callchain = Append(@, <<SymLookupCode(st, Head(frames)[1]),
                                           Head(frames)[2]>>),
                 !.kept = Append(@, TRUE)])

\* lines 258-325 with the reversal of line 325 lost
apply_filter_no_reverse(callchain_tmp, fs_opt, accepted, st0) ==
    IF IsNone(fs_opt) THEN EncodeAll(Reverse(callchain_tmp), st0)
    ELSE LET fs == Val(fs_opt) IN
         IF fs.type = "python" /\ InvalidAccepted(accepted, Len(callchain_tmp))
         THEN [st0 EXCEPT !.error = TRUE]
         ELSE FilterLoop(callchain_tmp, 0, fs, accepted, st0)

\* lines 258-325: the callchain, the dictionary and the code generator as
\* they are left; error when a RuntimeError is raised
apply_filter(callchain_tmp, fs_opt, accepted, st0) ==
    IF IsNone(fs_opt) THEN EncodeAll(Reverse(callchain_tmp), st0)
    ELSE LET fs == Val(fs_opt) IN
         IF fs.type = "python" /\ InvalidAccepted(accepted, Len(callchain_tmp))
         THEN [st0 EXCEPT !.error = TRUE]
         ELSE LET r == FilterLoop(callchain_tmp, 0, fs, accepted, st0) IN
              IF r.error THEN r ELSE [r EXCEPT !.callchain = Reverse(@)]

(***************************************************************************)
(* The stream router, lines 54-61.                                         *)
(***************************************************************************)
\* get_next_event_stream(): the index of the stream returned and next_index
\* as it is left; n is len(event_streams)
get_next_event_stream(ni, n) ==
    [stream |-> ni, next_index |-> (ni + 1) % n]

\* event_stream_dict[pid][tid] without the memo: every sample takes the next stream
stream_for_no_memo(esd, ni, n, pid, tid) ==
    LET g == get_next_event_stream(ni, n)
        inner == IF pid \in DOMAIN esd THEN esd[pid] ELSE <<>>
    IN [event_stream_dict |->
            [q \in DOMAIN esd \cup {pid} |->
                IF q = pid
                THEN [t \in DOMAIN inner \cup {tid} |-> IF t = tid THEN g.stream ELSE inner[t]]
                ELSE esd[q]],
        next_index |-> g.next_index,
        stream |-> g.stream]

\* event_stream_dict[pid][tid] with the pointer advanced by every sample
stream_for_advances(esd, ni, n, pid, tid) ==
    IF pid \in DOMAIN esd /\ tid \in DOMAIN esd[pid]
    THEN [event_stream_dict |-> esd, next_index |-> (ni + 1) % n, stream |-> esd[pid][tid]]
    ELSE LET g == get_next_event_stream(ni, n) IN
         [event_stream_dict |->
              IF pid \in DOMAIN esd
              THEN [esd EXCEPT ![pid] = @ @@ (tid :> g.stream)]
              ELSE esd @@ (pid :> (tid :> g.stream)),
          next_index |-> g.next_index,
          stream |-> g.stream]

\* event_stream_dict[pid][tid]: two nested defaultdicts
stream_for(esd, ni, n, pid, tid) ==
    IF pid \in DOMAIN esd /\ tid \in DOMAIN esd[pid]
    THEN [event_stream_dict |-> esd, next_index |-> ni, stream |-> esd[pid][tid]]
    ELSE LET g == get_next_event_stream(ni, n) IN
         [event_stream_dict |->
                 IF pid \in DOMAIN esd
                 THEN [esd EXCEPT ![pid] = @ @@ (tid :> g.stream)]
                 ELSE esd @@ (pid :> (tid :> g.stream)),
             next_index |-> g.next_index,
             stream |-> g.stream]

(***************************************************************************)
(* The handlers perf calls: trace_begin, process_event, trace_end.         *)
(***************************************************************************)
TaskClock == <<"t", "a", "s", "k", "-", "c", "l", "o", "c", "k">>
OffcpuTime == <<"o", "f", "f", "c", "p", "u", "-", "t", "i", "m", "e">>
Walltime == <<"w", "a", "l", "l", "t", "i", "m", "e">>
CallchainsJson == <<"_", "c", "a", "l", "l", "c", "h", "a", "i", "n", "s",
                    ".", "j", "s", "o", "n">>

\* lines 212-216 without the test of line 212
OverallEventTypeOfLatest(current, parsed_event_type) ==
    IF parsed_event_type \in {TaskClock, OffcpuTime}
    THEN Some(Walltime)
    ELSE Some(parsed_event_type)

\* lines 212-216
OverallEventType(current, parsed_event_type) ==
    IF IsNone(current)
    THEN IF parsed_event_type \in {TaskClock, OffcpuTime}
         THEN Some(Walltime)
         ELSE Some(parsed_event_type)
    ELSE current

StopLine == [type |-> "<STOP>"]

\* write(stream, msg) sending the line twice
write_twice(stream, msg) == [stream EXCEPT !.lines = Append(Append(@, msg), msg)]

\* write(stream, msg), lines 75-84, on a stream [connect, lines, closed]
write(stream, msg) == [stream EXCEPT !.lines = Append(@, msg)]

Init ==
    /\ pc = "loaded"
    /\ cur_code_sym = <<MinChar>>
    /\ event_streams = <<>>
    /\ next_index = 0
    /\ symbol_dict = <<>>
    /\ dso_dict = <<>>
    /\ overall_event_type = None
    /\ perf_maps = <<>>
    /\ filter_settings = None
    /\ event_stream_dict = <<>>
    /\ frontend_stream = None
    /\ map_files = [p \in {} |-> <<>>]
    /\ artifacts = <<>>
    /\ code_log = <<>>
    /\ emit_log = <<>>
    /\ find_log = <<>>
    /\ last = None

\* lines 150-196, over pipes for the frontend: serv is serv_connect[0], n the
\* number of connections named in ADAPTYST_SERV_CONNECT, fs the filter
\* settings the frontend sent (None when it sent none)
trace_begin(serv, n, fs) ==
    /\ pc = "loaded"
    /\ pc' = "running"
    /\ frontend_stream' = Some([connect |-> TRUE, lines |-> <<>>, closed |-> FALSE])
    /\ filter_settings' = fs
    /\ event_streams' = [k \in 1..n |-> [connect |-> serv = "pipe", lines |-> <<>>,
                                         closed |-> FALSE]]
    /\ UNCHANGED <<cur_code_sym, next_index, symbol_dict, dso_dict, overall_event_type,
                   perf_maps, event_stream_dict, map_files, artifacts, code_log,
                   emit_log, find_log, last>>

\* lines 199-335; accepted is what process() of the user's script returns
\* for this chain (read only under a python filter)
process_event(ev_name, pid, tid, time, period, raw_callchain, accepted) ==
    /\ pc = "running"
    /\ \E m \in {MapCallchain(raw_callchain,
                               [perf_maps |-> perf_maps, dso_dict |-> dso_dict,
                                find_log |-> find_log],
                               map_files, <<>>)} :
       \E f \in {apply_filter(m.callchain_tmp, filter_settings, accepted,
                               [symbol_dict |-> symbol_dict,
                                cur_code_sym |-> cur_code_sym,
                                code_log |-> code_log, callchain |-> <<>>,
                                last_cut |-> FALSE, kept |-> <<>>, error |-> FALSE])} :
          /\ overall_event_type' =
                OverallEventType(overall_event_type, ParsedEventType(ev_name))
          /\ perf_maps' = m.st.perf_maps
          /\ dso_dict' = m.st.dso_dict
          /\ find_log' = m.st.find_log
          /\ symbol_dict' = f.symbol_dict
          /\ cur_code_sym' = f.cur_code_sym
          /\ code_log' = f.code_log
          /\ IF f.error
             THEN /\ pc' = "failed"
                  /\ UNCHANGED <<event_streams, next_index, event_stream_dict, emit_log>>
             ELSE \E r \in {stream_for(event_stream_dict, next_index,
                                        Len(event_streams), pid, tid)} :
                  /\ pc' = pc
                  /\ event_stream_dict' = r.event_stream_dict
                  /\ next_index' = r.next_index
                  /\ event_streams' =
                        [event_streams EXCEPT ![r.stream + 1] =
                            write(@, [type |-> "sample",
                                      event_type |-> ParsedEventType(ev_name),
                                      pid |-> Str(pid), tid |-> Str(tid),
                                      time |-> time, period |-> period,
                                      callchain |-> f.callchain])]
                  /\ emit_log' = Append(emit_log, [conn |-> r.stream, pid |-> pid,
                                                   tid |-> tid])
          /\ last' = Some([n |-> IF IsNone(last) THEN 1 ELSE Val(last).n + 1,
                           ev_name |-> ev_name, raw_callchain |-> raw_callchain,
                           accepted |-> accepted,
                           callchain_tmp |-> m.callchain_tmp, kept |-> f.kept,
                           callchain |-> f.callchain, error |-> f.error])
    /\ UNCHANGED <<filter_settings, frontend_stream, map_files, artifacts>>

\* line 347: {v: k for k, v in symbol_dict.items()}
ReverseDict(sd) ==
    [c \in {sd[k].code : k \in DOMAIN sd} |->
        sd[CHOOSE k \in DOMAIN sd :
              /\ sd[k].code = c
              /\ \A j \in DOMAIN sd : sd[j].code = c => j <= k].key]

\* lines 357-363: the paths of the maps that were never opened
RECURSIVE MissingMaps(_)
MissingMaps(pm) ==
    IF pm = <<>> THEN <<>>
    ELSE IF Head(pm).f_none THEN <<Head(pm).map_path>> \o MissingMaps(Tail(pm))
    ELSE MissingMaps(Tail(pm))

\* lines 338-371 with the sources report sent after the missing maps
trace_end_sources_late ==
    /\ pc = "running"
    /\ pc' = "closed"
    /\ event_streams' = [k \in DOMAIN event_streams |->
                            [write(event_streams[k], StopLine) EXCEPT !.closed = TRUE]]
    /\ artifacts' =
          IF IsNone(overall_event_type) THEN artifacts
          ELSE Append(artifacts, [name |-> Val(overall_event_type) \o CallchainsJson,
                                  content |-> ReverseDict(symbol_dict)])
    /\ LET fs0 == Val(frontend_stream)
           fs1 == write(fs0, [type |-> "missing_symbol_maps",
                              data |-> MissingMaps(perf_maps)])
           fs2 == IF IsNone(overall_event_type) THEN fs1
                  ELSE write(fs1, [type |-> "sources", data |-> dso_dict])
           fs3 == write(fs2, StopLine)
       IN frontend_stream' = Some([fs3 EXCEPT !.closed = TRUE])
    /\ UNCHANGED <<cur_code_sym, next_index, symbol_dict, dso_dict, overall_event_type,
                   perf_maps, filter_settings, event_stream_dict, map_files, code_log,
                   emit_log, find_log, last>>

\* lines 338-371
trace_end ==
    /\ pc = "running"
    /\ pc' = "closed"
    /\ event_streams' = [k \in DOMAIN event_streams |->
                            [write(event_streams[k], StopLine) EXCEPT !.closed = TRUE]]
    /\ artifacts' =
          IF IsNone(overall_event_type) THEN artifacts
          ELSE Append(artifacts, [name |-> Val(overall_event_type) \o CallchainsJson,
                                  content |-> ReverseDict(symbol_dict)])
    /\ LET fs0 == Val(frontend_stream)
           fs1 == IF IsNone(overall_event_type) THEN fs0
                  ELSE write(fs0, [type |-> "sources", data |-> dso_dict])
           fs2 == write(fs1, [type |-> "missing_symbol_maps",
                              data |-> MissingMaps(perf_maps)])
           fs3 == write(fs2, StopLine)
       IN frontend_stream' = Some([fs3 EXCEPT !.closed = TRUE])
    /\ UNCHANGED <<cur_code_sym, next_index, symbol_dict, dso_dict, overall_event_type,
                   perf_maps, filter_settings, event_stream_dict, map_files, code_log,
                   emit_log, find_log, last>>

(***************************************************************************)
(* The environment: the JIT compiler of a profiled process creates its     *)
(* perf-<pid>.map and appends lines to it while samples are processed      *)
(* (what it wrote before trace_begin is as if written right after it).     *)
(***************************************************************************)
map_append(path, line) ==
    /\ pc = "running"
    /\ map_files' = [p \in DOMAIN map_files \cup {path} |->
                        IF p = path
                        THEN [FileOf(map_files, p) EXCEPT
                                 !.exists = TRUE, !.lines = Append(@, line)]
                        ELSE map_files[p]]
    /\ UNCHANGED <<pc, cur_code_sym, event_streams, next_index, symbol_dict, dso_dict,
                   overall_event_type, perf_maps, filter_settings, event_stream_dict,
                   frontend_stream, artifacts, code_log, emit_log, find_log, last>>

\* the file is made as a regular file or as a FIFO
map_create(path, regular) ==
    /\ pc = "running"
    /\ ~FileOf(map_files, path).exists
    /\ map_files' = [p \in DOMAIN map_files \cup {path} |->
                        IF p = path
                        THEN [exists |-> TRUE, regular |-> regular, lines |-> <<>>]
                        ELSE map_files[p]]
    /\ UNCHANGED <<pc, cur_code_sym, event_streams, next_index, symbol_dict, dso_dict,
                   overall_event_type, perf_maps, filter_settings, event_stream_dict,
                   frontend_stream, artifacts, code_log, emit_log, find_log, last>>

(***************************************************************************)
(* The code generator alone: next_code called again and again.             *)
(***************************************************************************)
MaxCalls == 200

next_code_call ==
    /\ Len(code_log) < MaxCalls
    /\ cur_code_sym' = next_code(cur_code_sym).cur_code
    /\ code_log' = Append(code_log, next_code(cur_code_sym).res)
    /\ UNCHANGED <<pc, event_streams, next_index, symbol_dict, dso_dict,
                   overall_event_type, perf_maps, filter_settings, event_stream_dict,
                   frontend_stream, map_files, artifacts, emit_log, find_log, last>>

SpecCode == Init /\ [][next_code_call]_vars

\* C6: next_code never returns a string it has returned before.
C6_NeverRepeats ==
    \A a, b \in DOMAIN code_log : a # b => code_log[a] # code_log[b]

\* the carry past the only digit has happened and two-character codes went
\* through a carry into their second digit
C6_Witness ==
    /\ Len(code_log) >= 192
    /\ code_log[96] = <<MinChar, MinChar>>
    /\ code_log[191] = <<MinChar, MinChar + 1>>

\* C7: calls 1 to 95 return the one-character strings of the code points 32
\* to 126 in increasing order, call 96 returns a two-character string, the
\* length never decreases from a call to the next, and the list of digits
\* grows by at most one digit per call, appended at the minimum value.
C7_SequenceShape ==
    /\ \A k \in DOMAIN code_log :
          /\ k <= 95 => code_log[k] = <<MinChar + k - 1>>
          /\ k = 96 => Len(code_log[k]) = 2
          /\ k > 1 => Len(code_log[k]) >= Len(code_log[k - 1])
    /\ code_log # <<>> =>
          \/ Len(cur_code_sym) = Len(code_log[Len(code_log)])
          \/ /\ Len(cur_code_sym) = Len(code_log[Len(code_log)]) + 1
             /\ cur_code_sym[Len(cur_code_sym)] = MinChar

C7_Witness ==
    /\ Len(code_log) >= 96
    /\ code_log[95] = <<MaxChar>>
    /\ Len(code_log[96]) = 2

(***************************************************************************)
(* The stream router: samples of several threads of several processes,     *)
(* one resolved frame each, no filter.                                     *)
(***************************************************************************)
MaxConns == 2
MaxRouterSamples == 4
Pids == {1, 2}
Tids == {1, 2, 3}

Cycles == <<"c", "y", "c", "l", "e", "s">>
Foo == <<"f", "o", "o">>
Bar == <<"b", "a", "r">>
NoAccepted == [kind |-> "none", items |-> <<>>]

\* a frame with a static symbol and no module
SymFrame(ip, sym) ==
    [ip |-> ip, has_dso |-> FALSE, dso |-> <<>>, dso_off |-> 0,
     has_sym |-> TRUE, sym |-> sym]

RouterBegin == \E n \in 1..MaxConns : trace_begin("tcp", n, None)

RouterSample ==
    /\ Len(emit_log) < MaxRouterSamples
    /\ \E pid \in Pids, tid \in Tids :
          process_event(Cycles, pid, tid, Len(emit_log), 1, <<SymFrame(16, Foo)>>,
                        NoAccepted)

NextRouter == RouterBegin \/ RouterSample \/ trace_end

SpecRouter == Init /\ [][NextRouter]_vars

\* the sample records written to connection c (1-based), in order
RECURSIVE Samples(_)
Samples(lines) ==
    IF lines = <<>> THEN <<>>
    ELSE IF Head(lines).type = "sample" THEN <<Head(lines)>> \o Samples(Tail(lines))
    ELSE Samples(Tail(lines))

\* C1 as stated: all the samples of a thread id are on one connection,
\* whatever their process id.
C1_StickyByTid ==
    \A c, d \in DOMAIN event_streams :
        \A x \in Range(Samples(event_streams[c].lines)),
           y \in Range(Samples(event_streams[d].lines)) :
            x.tid = y.tid => c = d

\* C1 amended: all the samples of a (process id, thread id) pair are on one
\* connection, the one the pair was given when it was first seen.
C1_StickyByPidTid ==
    /\ \A c, d \in DOMAIN event_streams :
          \A x \in Range(Samples(event_streams[c].lines)),
             y \in Range(Samples(event_streams[d].lines)) :
              (x.pid = y.pid /\ x.tid = y.tid) => c = d
    /\ \A a \in DOMAIN emit_log :
          /\ emit_log[a].pid \in DOMAIN event_stream_dict
          /\ emit_log[a].tid \in DOMAIN event_stream_dict[emit_log[a].pid]
          /\ event_stream_dict[emit_log[a].pid][emit_log[a].tid] = emit_log[a].conn

\* a pair was sampled, then another pair on another connection, then the
\* first pair again
C1_Witness ==
    \E a, b, c \in DOMAIN emit_log :
        /\ a < b /\ b < c
        /\ emit_log[a].pid = emit_log[c].pid /\ emit_log[a].tid = emit_log[c].tid
        /\ emit_log[b].conn # emit_log[a].conn
        /\ emit_log[c].conn = emit_log[a].conn

\* the index in emit_log at which the thread id / the pair of entry a was first seen
FirstOfTid(a) ==
    CHOOSE b \in 1..a : /\ emit_log[b].tid = emit_log[a].tid
                        /\ \A e \in 1..(b - 1) : emit_log[e].tid # emit_log[a].tid
FirstOfPair(a) ==
    CHOOSE b \in 1..a : /\ emit_log[b].tid = emit_log[a].tid
                        /\ emit_log[b].pid = emit_log[a].pid
                        /\ \A e \in 1..(b - 1) : \/ emit_log[e].tid # emit_log[a].tid
                                                 \/ emit_log[e].pid # emit_log[a].pid

\* the number of distinct thread ids / pairs first seen before index b
TidsBefore(b) == Cardinality({emit_log[e].tid : e \in 1..(b - 1)})
PairsBefore(b) == Cardinality({<<emit_log[e].pid, emit_log[e].tid>> : e \in 1..(b - 1)})

\* C2 as stated: the k-th distinct thread id is on connection k mod N and
\* the pointer has advanced once per distinct thread id.
C2_RoundRobinByTid ==
    pc = "running" =>
        /\ \A a \in DOMAIN emit_log :
              emit_log[a].conn = TidsBefore(FirstOfTid(a)) % Len(event_streams)
        /\ next_index = TidsBefore(Len(emit_log) + 1) % Len(event_streams)

\* C2 amended: the k-th distinct (process id, thread id) pair, in order of
\* first appearance among the samples written, is on connection k mod N; the
\* pointer has advanced once per distinct pair and not for a sample of a
\* pair seen before.
C2_RoundRobinByPidTid ==
    pc = "running" =>
        /\ \A a \in DOMAIN emit_log :
              emit_log[a].conn = PairsBefore(FirstOfPair(a)) % Len(event_streams)
        /\ next_index = PairsBefore(Len(emit_log) + 1) % Len(event_streams)
        /\ \A c \in DOMAIN event_streams :
              Len(Samples(event_streams[c].lines)) =
                  Cardinality({a \in DOMAIN emit_log : emit_log[a].conn = c - 1})

\* two connections, a third distinct pair wrapped to connection 0, and a
\* sample of a pair seen before came after it
C2_Witness ==
    /\ pc = "running"
    /\ Len(event_streams) = 2
    /\ \E a, b \in DOMAIN emit_log :
          /\ a < b
          /\ PairsBefore(FirstOfPair(a)) = 2 /\ FirstOfPair(a) = a
          /\ emit_log[a].conn = 0
          /\ FirstOfPair(b) < b

\* the places <<connection, position>> of the record of the sample that
\* arrived at time t
PlacesOf(t) ==
    {p \in (DOMAIN event_streams) \X (1..(MaxRouterSamples + 2)) :
        /\ p[2] \in DOMAIN event_streams[p[1]].lines
        /\ event_streams[p[1]].lines[p[2]].type = "sample"
        /\ event_streams[p[1]].lines[p[2]].time = t}

\* C13: every sample processed since trace_begin has exactly one record,
\* on the connection routed for its thread; the records of a connection
\* are in arrival order; before trace_end a connection holds records only,
\* and after it the records, then one <STOP>, then nothing.
C13_OneRecordThenStop ==
    LET n == IF IsNone(last) THEN 0 ELSE Val(last).n IN
    /\ \A t \in 0..(n - 1) :
          /\ Cardinality(PlacesOf(t)) = 1
          /\ \A p \in PlacesOf(t) :
                \E pid \in Pids, tid \in Tids :
                    /\ event_streams[p[1]].lines[p[2]].pid = Str(pid)
                    /\ event_streams[p[1]].lines[p[2]].tid = Str(tid)
                    /\ event_stream_dict[pid][tid] = p[1] - 1
    /\ \A k \in DOMAIN event_streams :
          LET lines == event_streams[k].lines
              recs == Samples(lines)
          IN /\ \A x, y \in DOMAIN recs : x < y => recs[x].time < recs[y].time
             /\ \A x \in DOMAIN recs : recs[x].time \in 0..(n - 1)
             /\ IF pc = "closed"
                THEN lines = recs \o <<StopLine>> /\ event_streams[k].closed
                ELSE lines = recs

\* two connections after trace_end: two records and the <STOP> on the
\* first, one record and the <STOP> on the second
C13_Witness ==
    /\ pc = "closed"
    /\ Len(event_streams) = 2
    /\ Len(event_streams[1].lines) = 3
    /\ Len(event_streams[2].lines) = 2
    /\ event_streams[1].lines[3] = StopLine
    /\ event_streams[2].lines[2] = StopLine
    /\ Val(last).n = 3

(***************************************************************************)
(* The perf-map cache: a JIT compiler writes /perf-7.map while samples     *)
(* whose one frame lies in that map are processed.                         *)
(***************************************************************************)
MaxLines == 3
MaxMapSamples == 2

MapPath == <<"/", "p", "e", "r", "f", "-", "7", ".", "m", "a", "p">>
\* "10 4 foo": [0x10, 0x14); "20 8 _Z1fv": [0x20, 0x28); "8 2 bar":
\* [0x8, 0xa); a line of no entry
LineFoo == <<"1", "0", " ", "4", " ", "f", "o", "o">>
LineF == <<"2", "0", " ", "8", " ", "_", "Z", "1", "f", "v">>
LineBar == <<"8", " ", "2", " ", "b", "a", "r">>
LineBad == <<"z", "z">>
MapLines == {LineFoo, LineF, LineBar, LineBad}
\* the start of foo, inside foo, the gap, inside f()
MapIps == {16, 18, 24, 34}

\* a frame of a module with no static symbol
DsoFrame(ip, dso, dso_off) ==
    [ip |-> ip, has_dso |-> TRUE, dso |-> dso, dso_off |-> dso_off,
     has_sym |-> FALSE, sym |-> <<>>]

MapBegin == trace_begin("tcp", 1, None)

MapSample ==
    /\ Len(emit_log) < MaxMapSamples
    /\ \E ip \in MapIps :
          process_event(Cycles, 1, 1, 0, 1, <<DsoFrame(ip, MapPath, 0)>>, NoAccepted)

MapWrite ==
    /\ Len(FileOf(map_files, MapPath).lines) < MaxLines
    /\ \E line \in MapLines \ Range(FileOf(map_files, MapPath).lines) :
          map_append(MapPath, line)

MapCreate == \E regular \in BOOLEAN : map_create(MapPath, regular)

NextMap == MapBegin \/ MapSample \/ MapWrite \/ MapCreate \/ trace_end

SpecMap == Init /\ [][NextMap]_vars

\* the entries of all the batches of a cache entry
CachedEntries(e) == UNION {Range(e.groups[g]) : g \in DOMAIN e.groups}

\* the entries the well-formed lines of a file stand for
FileEntries(lines) ==
    {<<IntHex(Val(MapLineMatch(Strip(l))).g1), IntHex(Val(MapLineMatch(Strip(l))).g2),
       demangle(Val(MapLineMatch(Strip(l))).g3)>> :
        l \in {x \in Range(lines) : ~IsNone(MapLineMatch(Strip(x)))}}

\* the cache entry of call c's owner before and after the call
Before(c) == c.before[KeyIndex(c.before, c.map_id)]
After(c) == c.after[KeyIndex(c.after, c.map_id)]

\* C3: a query whose address lies in the range of an entry already cached
\* (also strictly above its start) returns that entry's name and reads no
\* line; so an address that resolved once resolves to the same name later.
C3_CacheHit ==
    /\ \A a \in DOMAIN find_log :
          LET c == find_log[a] IN
          (KeyIndex(c.before, c.map_id) # 0 /\ ~Before(c).f_none) =>
              LET held == {d \in CachedEntries(Before(c)) : Contains(d, c.ip)} IN
              held # {} =>
                  /\ ~IsNone(c.result)
                  /\ Val(c.result) \in {d[3] : d \in held}
                  /\ After(c).i = Before(c).i
    /\ \A a, b \in DOMAIN find_log :
          (a < b /\ find_log[a].map_id = find_log[b].map_id
                 /\ find_log[a].ip = find_log[b].ip
                 /\ ~IsNone(find_log[a].result))
              => find_log[b].result = find_log[a].result

\* C4: on an open map, a query returns the name of an entry of the file
\* whose range contains the address, and nothing when no entry of the file
\* contains it (a gap, or nothing readable and nothing cached).
C4_LookupResult ==
    \A a \in DOMAIN find_log :
        LET c == find_log[a] IN
        ~After(c).f_none =>
            LET holding == {d \in FileEntries(c.lines) : Contains(d, c.ip)} IN
            /\ holding # {} => (~IsNone(c.result) /\ Val(c.result) \in {d[3] : d \in holding})
            /\ holding = {} => IsNone(c.result)

\* the first call for the owner of call a
FirstCall(a) ==
    CHOOSE b \in DOMAIN find_log :
        /\ find_log[b].map_id = find_log[a].map_id
        /\ \A x \in DOMAIN find_log : find_log[x].map_id = find_log[a].map_id => b <= x

\* the line of the given type on the control channel
ControlLines(type) ==
    {k \in DOMAIN Val(frontend_stream).lines : Val(frontend_stream).lines[k].type = type}

\* C11: when the map file of an owner is absent at the first lookup for
\* that owner, every lookup for the owner returns nothing and leaves the
\* cache entry closed and unread, also once the file exists; and the
\* missing_symbol_maps report sent at shutdown lists, each once, exactly
\* the paths of the owners whose file was absent at their first lookup.
C11_MissingMapPermanent ==
    /\ \A a \in DOMAIN find_log :
          ~find_log[FirstCall(a)].exists =>
              /\ IsNone(find_log[a].result) /\ ~find_log[a].raised
              /\ After(find_log[a]).f_none
              /\ After(find_log[a]).pos = 0 /\ After(find_log[a]).groups = <<>>
    /\ pc = "closed" =>
          \A k \in ControlLines("missing_symbol_maps") :
              LET data == Val(frontend_stream).lines[k].data
                  absent == {find_log[a].map_path :
                                a \in {x \in DOMAIN find_log :
                                          FirstCall(x) = x /\ ~find_log[x].exists}}
              IN Range(data) = absent /\ Len(data) = Cardinality(absent)

\* the file was absent at the first lookup, held an entry for the address
\* of the second one, and the report names it
C11_Witness ==
    /\ pc = "closed"
    /\ Len(find_log) = 2
    /\ ~find_log[1].exists
    /\ find_log[2].exists
    /\ \E d \in FileEntries(find_log[2].lines) : Contains(d, find_log[2].ip)
    /\ \E k \in ControlLines("missing_symbol_maps") :
          Val(frontend_stream).lines[k].data = <<MapPath>>

\* the number of entries held in the batches
RECURSIVE CountEntries(_)
CountEntries(groups) ==
    IF groups = <<>> THEN 0 ELSE Len(Head(groups)) + CountEntries(Tail(groups))

\* C18: the entries held in the batches of an open map are exactly the
\* entries of the well-formed lines read from its file so far, each held
\* once, whichever way the last call left the read loop; the line counter
\* counts every line read, malformed ones too, and a call that returns
\* nothing has read every line written, those after a malformed line too.
C18_CacheHoldsParsed ==
    /\ \A k \in DOMAIN perf_maps :
          ~perf_maps[k].f_none =>
              LET e == perf_maps[k]
                  consumed == Take(FileOf(map_files, e.map_path).lines, e.pos)
              IN /\ CachedEntries(e) = FileEntries(consumed)
                 /\ CountEntries(e.groups) = Cardinality(FileEntries(consumed))
                 /\ e.i = e.pos
    /\ \A a \in DOMAIN find_log :
          (~After(find_log[a]).f_none /\ IsNone(find_log[a].result)) =>
              After(find_log[a]).pos = Len(find_log[a].lines)

\* C19: every batch of every open map holds an entry at least and is in
\* ascending order of start address; a call of find_in_map leaves the
\* batches it found as they are and in their places, and puts at most one
\* new batch behind them.
C19_BatchesSorted ==
    /\ \A k \in DOMAIN perf_maps :
          \A g \in DOMAIN perf_maps[k].groups :
              LET group == perf_maps[k].groups[g] IN
              /\ Len(group) > 0
              /\ \A x, y \in DOMAIN group : x < y => group[x][1] <= group[y][1]
    /\ \A a \in DOMAIN find_log :
          LET c == find_log[a]
              old == IF KeyIndex(c.before, c.map_id) = 0 THEN <<>> ELSE Before(c).groups
              new == After(c).groups
          IN /\ Len(new) \in {Len(old), Len(old) + 1}
             /\ SubSeq(new, 1, Len(old)) = old

\* f() at 0x20 was written before foo at 0x10 and both were read by one
\* call: the batch holds foo first; a later call put the batch of bar,
\* which starts below both, behind it
C19_Witness ==
    /\ Len(perf_maps) = 1
    /\ perf_maps[1].groups = << << <<16, 4, Foo>>, <<32, 8, DemangledF>> >>,
                                << <<8, 2, Bar>> >> >>
    /\ FileOf(map_files, MapPath).lines = <<LineF, LineFoo, LineBar>>

(***************************************************************************)
(* The callchain filter: chains of up to three frames under every filter   *)
(* configuration ('mark' is sent with every type of filter).               *)
(***************************************************************************)
MaxFilterSamples == 1

LibPath == <<"/", "l", "i", "b">>
FilterFrames == {SymFrame(16, Foo), DsoFrame(17, LibPath, 1)}
FilterChains == UNION {[1..n -> FilterFrames] : n \in 0..3}

Cond(type, regex) == type \o <<" ">> \o regex
\* foo only; [/lib] only (a conjunction in the second group); none (a
\* conjunction that fails); both
FilterConditions ==
    { << <<Cond(SYM, Foo)>> >>,
      << <<Cond(SYM, Bar)>>, <<Cond(EXEC, <<"l", "i", "b">>), Cond(ANY, <<"/">>)>> >>,
      << <<Cond(SYM, Foo), Cond(EXEC, <<"l", "i", "b">>)>> >>,
      << <<Cond(ANY, <<"o">>)>>, <<Cond(ANY, <<"l", "i", "b">>)>> >> }

FilterConfigs ==
    [type : {"allow", "deny"}, conditions : FilterConditions, mark : BOOLEAN]
    \cup [type : {"python"}, conditions : {<<>>}, mark : BOOLEAN]

\* what process() may return for a chain of n frames: a list of n bools,
\* None, no list, a list one too long, one too short, a list of n items of
\* which one is no bool
Accepteds(n) ==
    [kind : {"list"}, items : [1..n -> {"True", "False"}]]
    \cup {NoAccepted, [kind |-> "other", items |-> <<>>],
          [kind |-> "list", items |-> [k \in 1..(n + 1) |-> "True"]]}
    \cup (IF n = 0 THEN {}
          ELSE {[kind |-> "list", items |-> [k \in 1..(n - 1) |-> "True"]]}
               \cup {[kind |-> "list",
                      items |-> [k \in 1..n |-> IF k = bad THEN "other" ELSE "True"]] :
                        bad \in 1..n})

FilterBegin ==
    \E fs \in {None} \cup {Some(f) : f \in FilterConfigs} : trace_begin("tcp", 1, fs)

FilterSample ==
    /\ Len(emit_log) < MaxFilterSamples
    /\ \E chain \in FilterChains :
          \E accepted \in IF ~IsNone(filter_settings) /\ Val(filter_settings).type = "python"
                          THEN Accepteds(Len(chain)) ELSE {NoAccepted} :
              process_event(Cycles, 1, 1, 0, 1, chain, accepted)

NextFilter == FilterBegin \/ FilterSample \/ trace_end

SpecFilter == Init /\ [][NextFilter]_vars

\* the last sample record written, and its callchain with every code
\* replaced by the pair the dictionary holds for it
LastRecord ==
    LET lines == event_streams[emit_log[Len(emit_log)].conn + 1].lines
        s == Samples(lines)
    IN s[Len(s)]
Decoded(callchain) ==
    [k \in DOMAIN callchain |->
        <<symbol_dict[CHOOSE j \in DOMAIN symbol_dict :
                          symbol_dict[j].code = callchain[k][1]].key,
          callchain[k][2]>>]

\* a frame matches when it satisfies every predicate of at least one rule-group
Matches(sym_result, conditions) ==
    \E g \in DOMAIN conditions :
        \A c \in DOMAIN conditions[g] : CondHolds(sym_result, conditions[g][c])

\* frame i (1-based, innermost first) of the last sample is kept by the strategy
KeptBy(fs, i) ==
    IF fs.type = "python" THEN Val(last).accepted.items[i] = "True"
    ELSE IF fs.type = "allow" THEN Matches(Val(last).callchain_tmp[i][1], fs.conditions)
    ELSE ~Matches(Val(last).callchain_tmp[i][1], fs.conditions)

\* the frames that leave something in the output: the kept ones and, with
\* mark-cuts, the first of every maximal run of rejected ones
EmitPoints(fs, n) ==
    {i \in 1..n : \/ KeptBy(fs, i)
                  \/ fs.mark /\ (i = 1 \/ KeptBy(fs, i - 1))}

\* the elements of a finite set of integers in descending order
RECURSIVE Descending(_)
Descending(S) ==
    IF S = {} THEN <<>>
    ELSE LET m == CHOOSE x \in S : \A y \in S : y <= x IN <<m>> \o Descending(S \ {m})

ExpectedCallchain(fs) ==
    LET tmp == Val(last).callchain_tmp
        pts == Descending(EmitPoints(fs, Len(tmp)))
    IN [k \in DOMAIN pts |->
           IF KeptBy(fs, pts[k]) THEN tmp[pts[k]] ELSE <<CutKey, <<>> >>]

Filtered == ~IsNone(last) /\ ~Val(last).error /\ ~IsNone(filter_settings)

\* C8: under every strategy the callchain written is the input reversed,
\* every kept frame unchanged, every maximal run of rejected frames replaced
\* by one "(cut)" marker with mark-cuts and by nothing without.
C8_OutputShape ==
    Filtered => Decoded(LastRecord.callchain) = ExpectedCallchain(Val(filter_settings))

\* allow, mark-cuts, three frames of which only the middle one matches:
\* marker, kept frame, marker
C8_Witness ==
    /\ Filtered
    /\ Val(filter_settings).type = "allow" /\ Val(filter_settings).mark
    /\ Len(Val(last).callchain_tmp) = 3
    /\ Val(last).kept = <<FALSE, TRUE, FALSE>>
    /\ Decoded(LastRecord.callchain) =
          << <<CutKey, <<>> >>, Val(last).callchain_tmp[2], <<CutKey, <<>> >> >>

\* C9: with the same rule-groups on the same chain, a frame is kept under
\* deny exactly when it is dropped under allow: allow keeps the frames that
\* match, deny the frames that do not.
C9_DenyComplementsAllow ==
    (Filtered /\ Val(filter_settings).type \in {"allow", "deny"}) =>
        LET fs == Val(filter_settings)
            other == IF fs.type = "allow" THEN "deny" ELSE "allow"
        IN \A i \in DOMAIN Val(last).kept :
              LET sym_result == Val(last).callchain_tmp[i][1] IN
              /\ Val(last).kept[i] = IF fs.type = "allow"
                                      THEN Matches(sym_result, fs.conditions)
                                      ELSE ~Matches(sym_result, fs.conditions)
              /\ Val(last).kept[i] # Keeps(other, satisfy_conditions(sym_result, fs.conditions))

\* a chain under deny of which one frame matches (dropped) and one does not (kept)
C9_Witness ==
    /\ Filtered
    /\ Val(filter_settings).type = "deny"
    /\ \E i, j \in DOMAIN Val(last).kept :
          /\ Val(last).kept[i] /\ ~Val(last).kept[j]
          /\ Matches(Val(last).callchain_tmp[j][1], Val(filter_settings).conditions)
          /\ ~Matches(Val(last).callchain_tmp[i][1], Val(filter_settings).conditions)

\* what process() returned for sample l is no list, has not the length of
\* the chain, or holds an element that is no bool
WrongResult(l) ==
    \/ l.accepted.kind # "list"
    \/ Len(l.accepted.items) # Len(l.callchain_tmp)
    \/ \E k \in DOMAIN l.accepted.items : l.accepted.items[k] \notin {"True", "False"}

\* C12: under a python filter, a sample for which process() returns no
\* list, a list of another length than the chain, or a list with an element
\* that is no bool fails with the RuntimeError, and the step writes no
\* record to any connection.
C12_ClassifierValidation ==
    [][(/\ pc = "running"
        /\ ~IsNone(filter_settings) /\ Val(filter_settings).type = "python"
        /\ ~IsNone(last') /\ WrongResult(Val(last')))
       => (/\ pc' = "failed"
           /\ Val(last').error
           /\ event_streams' = event_streams
           /\ emit_log' = emit_log)]_vars

\* a list of the right length whose second element is no bool, after a
\* first frame that was kept
C12_Witness ==
    /\ pc = "failed"
    /\ Val(last).error
    /\ Val(last).accepted.kind = "list"
    /\ Len(Val(last).accepted.items) = Len(Val(last).callchain_tmp)
    /\ Len(Val(last).accepted.items) >= 2
    /\ Val(last).accepted.items[1] = "True"
    /\ Val(last).accepted.items[2] = "other"
    /\ \A k \in DOMAIN event_streams : event_streams[k].lines = <<>>

\* the codes named in the records written so far
EmittedCodes ==
    UNION {{rec.callchain[y][1] : y \in DOMAIN rec.callchain} :
           rec \in UNION {Range(Samples(event_streams[k].lines)) :
                             k \in DOMAIN event_streams}}

\* C20: as long as no sample has failed, every pair of the dictionary is
\* the "(cut)" marker pair or has its code in a record written, so a
\* frame that no record kept has no code; the same holds of the reverse
\* mapping written at shutdown.
C20_OnlySurvivorsEncoded ==
    /\ pc # "failed" =>
          \A j \in DOMAIN symbol_dict :
              symbol_dict[j].key = CutKey \/ symbol_dict[j].code \in EmittedCodes
    /\ (pc = "closed" /\ artifacts # <<>>) =>
          \A c \in DOMAIN artifacts[1].content :
              artifacts[1].content[c] = CutKey \/ c \in EmittedCodes

\* an allow filter without markers kept foo and dropped the frame of /lib:
\* foo is the one pair of the dictionary and of the reverse mapping
C20_Witness ==
    /\ pc = "closed" /\ artifacts # <<>>
    /\ ~IsNone(filter_settings)
    /\ Val(filter_settings).type = "allow" /\ ~Val(filter_settings).mark
    /\ Val(last).kept = <<TRUE, FALSE>>
    /\ Len(Val(last).callchain) = 1
    /\ Len(symbol_dict) = 1
    /\ symbol_dict[1].key = <<Foo, <<>> >>
    /\ DOMAIN artifacts[1].content = {symbol_dict[1].code}

\* C21: a sample that fails because process() returned a wrong-shaped
\* result or a list with an element that is no bool leaves the symbol
\* dictionary and the state of the code generator as they were before the
\* sample: no frame of the failed sample is given a code.
C21_ErrorLeavesDictionary ==
    [][(/\ pc = "running"
        /\ ~IsNone(last') /\ Val(last').error /\ WrongResult(Val(last')))
       => (/\ symbol_dict' = symbol_dict
           /\ cur_code_sym' = cur_code_sym)]_vars

\* the part of C21 that the code keeps: a result that is no list or has
\* not the length of the chain is refused before any frame is looked at
C21_WrongShapeLeavesDictionary ==
    [][(/\ pc = "running"
        /\ ~IsNone(last') /\ Val(last').error
        /\ \/ Val(last').accepted.kind # "list"
           \/ Len(Val(last').accepted.items) # Len(Val(last').callchain_tmp))
       => (/\ symbol_dict' = symbol_dict
           /\ cur_code_sym' = cur_code_sym)]_vars

(***************************************************************************)
(* The whole pipeline on frames of every kind: with and without a module,  *)
(* a static symbol, a perf map; no filter, one connection.                 *)
(***************************************************************************)
MaxSamples == 2

\* a frame with neither module nor symbol
BareFrame(ip) ==
    [ip |-> ip, has_dso |-> FALSE, dso |-> <<>>, dso_off |-> 0,
     has_sym |-> FALSE, sym |-> <<>>]
\* a frame of a module with a static symbol
DsoSymFrame(ip, dso, dso_off, sym) ==
    [ip |-> ip, has_dso |-> TRUE, dso |-> dso, dso_off |-> dso_off,
     has_sym |-> TRUE, sym |-> sym]

Frames ==
    <<BareFrame(16), SymFrame(17, Foo), DsoFrame(19, LibPath, 1),
      DsoSymFrame(20, LibPath, 2, MangledF), DsoSymFrame(21, MapPath, 0, MangledF),
      DsoFrame(18, MapPath, 0)>>

\* the empty chain, every chain of one frame, and every chain of a frame
\* and the next one
Chains ==
    {<<>>} \cup {<<Frames[k]>> : k \in DOMAIN Frames}
           \cup {<<Frames[k], Frames[(k % Len(Frames)) + 1]>> : k \in DOMAIN Frames}

Begin == trace_begin("pipe", 1, None)

Sample ==
    /\ Len(emit_log) < MaxSamples
    /\ \E chain \in Chains : process_event(Cycles, 1, 1, 0, 1, chain, NoAccepted)

\* the JIT compiler writes the line of foo and a line of no entry
MainLines == {LineFoo, LineBad}

MainWrite ==
    /\ Len(FileOf(map_files, MapPath).lines) < MaxLines
    /\ \E line \in MainLines \ Range(FileOf(map_files, MapPath).lines) :
          map_append(MapPath, line)

Next == Begin \/ Sample \/ MainWrite \/ MapCreate \/ trace_end

Spec == Init /\ [][Next]_vars

\* no pair twice in the dictionary, no code twice
Bijective ==
    \A j, k \in DOMAIN symbol_dict :
        j # k => (symbol_dict[j].key # symbol_dict[k].key
                  /\ symbol_dict[j].code # symbol_dict[k].code)

\* the reverse mapping written at shutdown maps every code to its pair
ReverseExact ==
    (pc = "closed" /\ artifacts # <<>>) =>
        LET rev == artifacts[Len(artifacts)].content IN
        /\ DOMAIN rev = {symbol_dict[k].code : k \in DOMAIN symbol_dict}
        /\ \A k \in DOMAIN symbol_dict : rev[symbol_dict[k].code] = symbol_dict[k].key

\* a step leaves every entry of the dictionary as it is
EntriesStay ==
    \A k \in DOMAIN symbol_dict :
        k \in DOMAIN symbol_dict' /\ symbol_dict'[k] = symbol_dict[k]

\* C5: the code of a pair never changes, no two pairs share a code, and
\* the reverse mapping written at shutdown maps every code back to the
\* pair that received it.
C5_DictionaryBijection ==
    [](Bijective /\ ReverseExact) /\ [][EntriesStay]_vars

\* three pairs have a code, two records name the same code, and the
\* reverse mapping is written
C5_Witness ==
    /\ pc = "closed" /\ artifacts # <<>>
    /\ Len(symbol_dict) >= 3
    /\ LET s == Samples(event_streams[1].lines) IN
       /\ Len(s) = 2
       /\ \E x \in DOMAIN s[1].callchain, y \in DOMAIN s[2].callchain :
             s[1].callchain[x][1] = s[2].callchain[y][1]

\* C10 as stated: a frame of an ordinary module that the resolver reaches
\* (no lookup of an earlier frame of the chain ended the resolution of the
\* chain) resolves to the bracketed
\* module path and its module-relative offset, which is recorded for the
\* module, with or without a static symbol.
C10_OrdinaryModuleBracketed ==
    (~IsNone(last)) =>
        \A k \in DOMAIN Val(last).callchain_tmp :
            LET e == Val(last).raw_callchain[k] IN
            IsOrdinary(e) =>
                /\ Val(last).callchain_tmp[k] = << <<Bracket(e.dso), e.dso>>, Hex(e.dso_off)>>
                /\ e.dso \in DOMAIN dso_dict
                /\ Hex(e.dso_off) \in dso_dict[e.dso]

\* C10 amended: for a frame of an ordinary module that the resolver
\* reaches, the display name is the bracketed module path when the
\* frame carries no static symbol and the symbol's name as given when it
\* carries one; in both cases the offset shown is the module-relative
\* offset, which is recorded for the module.
C10_OrdinaryModule ==
    (~IsNone(last)) =>
        \A k \in DOMAIN Val(last).callchain_tmp :
            LET e == Val(last).raw_callchain[k] IN
            IsOrdinary(e) =>
                /\ Val(last).callchain_tmp[k] =
                      << <<IF e.has_sym THEN e.sym ELSE Bracket(e.dso), e.dso>>,
                         Hex(e.dso_off)>>
                /\ e.dso \in DOMAIN dso_dict
                /\ Hex(e.dso_off) \in dso_dict[e.dso]

\* a chain held a frame of /lib with a symbol and one without
C10_Witness ==
    /\ ~IsNone(last)
    /\ \E j, k \in DOMAIN Val(last).raw_callchain :
          /\ IsOrdinary(Val(last).raw_callchain[j]) /\ Val(last).raw_callchain[j].has_sym
          /\ IsOrdinary(Val(last).raw_callchain[k]) /\ ~Val(last).raw_callchain[k].has_sym
    /\ dso_dict[LibPath] = {Hex(1), Hex(2)}

\* C14: nothing is sent on the control channel before trace_end; trace_end
\* sends the sources report (and writes <event type>_callchains.json) when
\* and only when a sample was processed, then the missing_symbol_maps
\* report in every case, then <STOP>, and closes the channel.
C14_ShutdownSequence ==
    /\ pc = "running" => (Val(frontend_stream).lines = <<>> /\ artifacts = <<>>)
    /\ pc = "closed" =>
          LET lines == Val(frontend_stream).lines
              m == Len(lines) - 1
          IN /\ Val(frontend_stream).closed
             /\ Len(lines) = IF IsNone(last) THEN 2 ELSE 3
             /\ lines[Len(lines)] = StopLine
             /\ lines[m].type = "missing_symbol_maps"
             /\ lines[m].data = MissingMaps(perf_maps)
             /\ ~IsNone(last) => lines[1] = [type |-> "sources", data |-> dso_dict]
             /\ Len(artifacts) = IF IsNone(last) THEN 0 ELSE 1
             /\ ~IsNone(last) =>
                   artifacts[1].name = Val(overall_event_type) \o CallchainsJson

\* a run with samples that ends with the three messages, a module in the
\* sources report and a map in the missing maps
C14_Witness ==
    /\ pc = "closed"
    /\ ~IsNone(last)
    /\ Len(Val(frontend_stream).lines) = 3
    /\ LibPath \in DOMAIN Val(frontend_stream).lines[1].data
    /\ Val(frontend_stream).lines[2].data = <<MapPath>>
    /\ Val(frontend_stream).lines[3] = StopLine
    /\ Len(artifacts) = 1

\* C15: every raw frame of a sample has a display name, which is a
\* non-empty string, whichever of the symbol, the module path and the
\* module offset the frame carries and whatever the lookup in the perf map
\* gives; it is the bracketed hex instruction pointer when the frame has no
\* symbol and either no module or a perf map that gives no name for the
\* address.
C15_DisplayNameNeverEmpty ==
    (~IsNone(last)) =>
        \A k \in DOMAIN Val(last).raw_callchain :
            /\ k \in DOMAIN Val(last).callchain_tmp
            /\ LET e == Val(last).raw_callchain[k]
                   name == Val(last).callchain_tmp[k][1][1]
               IN /\ name # <<>>
                  /\ (~e.has_sym /\ ~e.has_dso) => name = Bracket(Hex(e.ip))
                  /\ (~e.has_sym /\ IsMap(e)
                         /\ \A d \in FileEntries(FileOf(map_files, e.dso).lines) :
                               ~Contains(d, e.ip))
                       => name = Bracket(Hex(e.ip))

\* C16: with no filter configured, the callchain written has one entry
\* for every frame of the sample, in the reverse of the order of the
\* frames, the entry of a frame being the code of its resolved pair and
\* its offset; nothing is dropped and no marker is put in.
C16_NoFilterIdentityReversed ==
    (~IsNone(last) /\ IsNone(filter_settings)) =>
        LET n == Len(Val(last).raw_callchain)
            tmp == Val(last).callchain_tmp
            out == Val(last).callchain
        IN /\ Len(tmp) = n
           /\ Len(out) = n
           /\ \A k \in 1..n :
                 \E j \in DOMAIN symbol_dict :
                     /\ symbol_dict[j].key = tmp[k][1]
                     /\ out[n - k + 1] = <<symbol_dict[j].code, tmp[k][2]>>

(***************************************************************************)
(* The overall event type: samples of several events in one run.           *)
(***************************************************************************)
MaxEventSamples == 3

\* "cpu/x" and "task-clock/u": names with a slash
CpuSlash == <<"c", "p", "u", "/", "x">>
TaskClockSlash == TaskClock \o <<"/", "u">>
EventNames == {Cycles, TaskClock, OffcpuTime, CpuSlash, TaskClockSlash}

EventBegin == trace_begin("pipe", 1, None)

EventSample ==
    /\ Len(emit_log) < MaxEventSamples
    /\ \E ev_name \in EventNames :
          process_event(ev_name, 1, 1, 0, 1, <<SymFrame(16, Foo)>>, NoAccepted)

NextEvent == EventBegin \/ EventSample \/ trace_end

SpecEvent == Init /\ [][NextEvent]_vars

\* the part of a name before its first slash
BeforeSlash(name) ==
    LET slashes == {k \in DOMAIN name : name[k] = "/"} IN
    IF slashes = {} THEN name
    ELSE SubSeq(name, 1, (CHOOSE k \in slashes : \A j \in slashes : k <= j) - 1)

\* C17: the overall event type is unset until the first sample; the first
\* sample sets it to walltime when the part of its event name before the
\* first slash is task-clock or offcpu-time and to that part otherwise; no
\* later step changes it.
C17_EventTypeFixedByFirst ==
    [][/\ IsNone(last) => IsNone(overall_event_type)
       /\ (IsNone(last) /\ ~IsNone(last')) =>
             overall_event_type' =
                 Some(IF BeforeSlash(Val(last').ev_name) \in {TaskClock, OffcpuTime}
                      THEN Walltime
                      ELSE BeforeSlash(Val(last').ev_name))
       /\ ~IsNone(last) => overall_event_type' = overall_event_type]_vars

\* walltime from a first sample of task-clock, kept by a sample of cpu/x
C17_Witness ==
    /\ ~IsNone(last)
    /\ Val(last).n = 2
    /\ Val(last).ev_name = CpuSlash
    /\ overall_event_type = Some(Walltime)
    /\ Len(Samples(event_streams[1].lines)) = 2
    /\ Samples(event_streams[1].lines)[1].event_type = TaskClock

====
